---- MODULE Spec2Model ----
(***************************************************************************)
(* Model of the document facades of the proposal generator:                *)
(*   legal_docs.generate_legal_document, company_profiles.                 *)
(*   generate_company_profile, project_lists.generate_project_list and     *)
(*   contacts.generate_contact_list, as called by app.py.                  *)
(*                                                                         *)
(* Texts (prompts, provider responses, returned documents) are sequences   *)
(* of tokens; a token is a string standing for a run of characters.        *)
(* Accented characters of the templates are written without the accent.    *)
(***************************************************************************)
EXTENDS Integers, Sequences, FiniteSets, TLC

VARIABLES proc, gemini_key, openai_key, call, state, prompt, response, result, calls

vars == <<proc, gemini_key, openai_key, call, state, prompt, response, result, calls>>

(***************************************************************************)
(* Bounds of the model.                                                    *)
(***************************************************************************)
MaxParties == 3
MaxProjects == 2
MaxRecs == 4
MaxItems == 2
MaxContacts == 3

Reqs == {"r1"}

(***************************************************************************)
(* Text helpers.                                                           *)
(***************************************************************************)
NL == "\n"

Range(s) == {s[i] : i \in 1..Len(s)}

\* Tokens made of whitespace characters only (the empty token included).
Whitespace == {NL, " ", ""}

RECURSIVE LStrip(_)
LStrip(s) ==
    IF s = <<>> THEN <<>>
    ELSE IF Head(s) \in Whitespace THEN LStrip(Tail(s)) ELSE s

RECURSIVE RStrip(_)
RStrip(s) ==
    IF s = <<>> THEN <<>>
    ELSE IF s[Len(s)] \in Whitespace THEN RStrip(SubSeq(s, 1, Len(s) - 1)) ELSE s

\* str.strip(): drop leading and trailing whitespace.
Strip(s) == RStrip(LStrip(s))

\* sep.join(parts), every part a text.
RECURSIVE Join(_, _)
Join(sep, parts) ==
    IF parts = <<>> THEN <<>>
    ELSE IF Len(parts) = 1 THEN parts[1]
    ELSE parts[1] \o sep \o Join(sep, Tail(parts))

\* str.lower() on the locale strings the model draws.
Lower(s) ==
    IF s = "English" THEN "english" ELSE s

\* True iff text t occurs in text s as a contiguous run.
IsSubstring(t, s) ==
    \E i \in 0..(Len(s) - Len(t)) : SubSeq(s, i + 1, i + Len(t)) = t

(***************************************************************************)
(* legal_docs.py                                                           *)
(***************************************************************************)
SupportedLocales == {"english", "portuguese", "spanish"}

\* The locale strings a caller passes: the supported ones, a supported one
\* in another case, an unsupported one and the empty string.
Locales == SupportedLocales \cup {"English", "klingon", ""}

LegalDocTypes == {"power_of_attorney", "letter_of_association"}

\* The template literals of get_language_legal_templates, one per
\* (language, document type); each starts and ends with a line break.
LegalTemplateText ==
    [english |->
       [power_of_attorney |->
          <<NL, "You are a legal document assistant.", NL, NL,
            "Generate a formal, clear, and professional Power of Attorney document.", NL, NL,
            "- Include the parties' full names and roles.", NL,
            "- Specify the authority granted clearly.", NL,
            "- Use formal legal language.", NL,
            "- Include date and place placeholders.", NL,
            "- The tone should be respectful, precise, and legally binding.", NL>>,
        letter_of_association |->
          <<NL, "You are a legal document assistant.", NL, NL,
            "Generate a formal Letter of Association for a consortium of firms joining for a project.", NL, NL,
            "- List all participating firms with roles.", NL,
            "- Specify the purpose of association.", NL,
            "- Include obligations and collaboration terms briefly.", NL,
            "- Use formal legal language.", NL,
            "- Include date and place placeholders.", NL>>],
     portuguese |->
       [power_of_attorney |->
          <<NL, "Voce e um assistente de documentos legais.", NL, NL,
            "Gere uma procuracao formal, clara e profissional.", NL, NL,
            "- Inclua os nomes completos das partes e seus papeis.", NL,
            "- Especifique claramente os poderes concedidos.", NL,
            "- Use linguagem juridica formal.", NL,
            "- Inclua espacos para data e local.", NL,
            "- O tom deve ser respeitoso, preciso e juridicamente vinculativo.", NL>>,
        letter_of_association |->
          <<NL, "Voce e um assistente de documentos legais.", NL, NL,
            "Gere uma Carta de Associacao formal para um consorcio de empresas que se unem para um projeto.", NL, NL,
            "- Liste todas as empresas participantes com seus papeis.", NL,
            "- Especifique o proposito da associacao.", NL,
            "- Inclua brevemente obrigacoes e termos de colaboracao.", NL,
            "- Use linguagem juridica formal.", NL,
            "- Inclua espacos para data e local.", NL>>],
     spanish |->
       [power_of_attorney |->
          <<NL, "Eres un asistente de documentos legales.", NL, NL,
            "Genera un poder notarial formal, claro y profesional.", NL, NL,
            "- Incluye los nombres completos de las partes y sus roles.", NL,
            "- Especifica claramente la autoridad otorgada.", NL,
            "- Usa lenguaje legal formal.", NL,
            "- Incluye espacios para fecha y lugar.", NL,
            "- El tono debe ser respetuoso, preciso y legalmente vinculante.", NL>>,
        letter_of_association |->
          <<NL, "Eres un asistente de documentos legales.", NL, NL,
            "Genera una Carta de Asociacion formal para un consorcio de empresas que se unen para un proyecto.", NL, NL,
            "- Enumera todas las empresas participantes con roles.", NL,
            "- Especifica el proposito de la asociacion.", NL,
            "- Incluye brevemente las obligaciones y terminos de colaboracion.", NL,
            "- Usa lenguaje legal formal.", NL,
            "- Incluye espacios para fecha y lugar.", NL>>]]

\* Mutant: an unknown language falls back to the last table entry.
get_language_legal_templates_LastEntry(language) ==
    IF Lower(language) \in DOMAIN LegalTemplateText
    THEN LegalTemplateText[Lower(language)]
    ELSE LegalTemplateText["spanish"]

\* templates.get(language.lower(), templates["english"])
get_language_legal_templates(language) ==
    IF Lower(language) \in DOMAIN LegalTemplateText
    THEN LegalTemplateText[Lower(language)]
    ELSE LegalTemplateText["english"]

\* "- {name} ({role})" for one party.
FirmLine(p) == <<"- ", p.name, " (", p.role, ")">>

\* Mutant: any document type that is no power of attorney is taken for a
\* letter of association.
LegalBuildError_AnyType(doc_type, parties) ==
    IF doc_type = "power_of_attorney" /\ Len(parties) < 2 THEN "IndexError" ELSE ""

\* The exception build_prompt raises on these arguments, the empty string
\* when it raises none: parties[0] and parties[1] are indexed for a power of attorney, and
\* a document type outside the two known ones is refused.
LegalBuildError(doc_type, parties) ==
    IF doc_type = "power_of_attorney"
    THEN IF Len(parties) < 2 THEN "IndexError" ELSE ""
    ELSE IF doc_type = "letter_of_association" THEN ""
    ELSE "ValueError"

\* Mutant: the power of attorney lists every party after the first two.
LegalPrompt_AllParties(doc_type, parties, project_name, language) ==
    LET language_templates == get_language_legal_templates(language) IN
    IF doc_type = "power_of_attorney"
    THEN Strip(<<NL>> \o language_templates["power_of_attorney"]
               \o <<NL, NL, "Project Name: ", project_name, NL, NL,
                    "Principal: ", parties[1].name, " (", parties[1].role, ")", NL,
                    "Attorney-in-fact: ", parties[2].name, " (", parties[2].role, ")", NL>>
               \o Join(<<NL>>, [i \in 1..(Len(parties) - 2) |-> FirmLine(parties[i + 2])])
               \o <<NL, NL,
                    "Generate the full legal Power of Attorney document below:", NL>>)
    ELSE Strip(<<NL>> \o language_templates["letter_of_association"]
               \o <<NL, NL, "Project Name: ", project_name, NL, NL,
                    "Participating Firms:", NL>>
               \o Join(<<NL>>, [i \in 1..Len(parties) |-> FirmLine(parties[i])])
               \o <<NL, NL,
                    "Generate the full legal Letter of Association document below:", NL>>)

\* legal_docs.build_prompt when it raises nothing.
LegalPrompt(doc_type, parties, project_name, language) ==
    LET language_templates == get_language_legal_templates(language) IN
    IF doc_type = "power_of_attorney"
    THEN Strip(<<NL>> \o language_templates["power_of_attorney"]
               \o <<NL, NL, "Project Name: ", project_name, NL, NL,
                    "Principal: ", parties[1].name, " (", parties[1].role, ")", NL,
                    "Attorney-in-fact: ", parties[2].name, " (", parties[2].role, ")", NL, NL,
                    "Generate the full legal Power of Attorney document below:", NL>>)
    ELSE Strip(<<NL>> \o language_templates["letter_of_association"]
               \o <<NL, NL, "Project Name: ", project_name, NL, NL,
                    "Participating Firms:", NL>>
               \o Join(<<NL>>, [i \in 1..Len(parties) |-> FirmLine(parties[i])])
               \o <<NL, NL,
                    "Generate the full legal Letter of Association document below:", NL>>)

\* The parties a caller supplies: entry i has its own name and role, so that
\* an entry can be recognised in a text.
PartyNames == <<"Alpha Consulting", "Beta Engineering", "Gamma Solutions",
                "Delta Works", "Epsilon Partners">>
PartyRoles == <<"Lead Firm", "Partner", "Subcontractor", "Advisor", "Auditor">>
Party(i) == [name |-> PartyNames[i], role |-> PartyRoles[i]]
PartyLists == {[i \in 1..n |-> Party(i)] : n \in 0..MaxParties}

LegalCalls ==
    [op : {"legal"},
     doc_type : LegalDocTypes \cup {"cover_letter"},
     parties : PartyLists,
     project_name : {"Renewable Energy Project"},
     language : Locales]

(***************************************************************************)
(* company_profiles.py                                                     *)
(***************************************************************************)
SUPPORTED_LANGUAGES == <<"english", "portuguese", "spanish">>

\* The template literals of get_language_profile_templates.
ProfileTemplateText ==
    [english |->
       [example |->
          <<NL, "Example Company Profile:", NL, NL,
            "**Alpha Consulting**", NL,
            "Alpha Consulting is a leading engineering firm with over 20 years of experience in infrastructure development.", NL,
            "Key Strengths:", NL,
            "- Expertise in smart city solutions", NL,
            "- ISO 9001 and ISO 14001 certified", NL,
            "- Proven track record with 50+ projects completed in 10 countries", NL, NL,
            "Contact: contact@alphaconsulting.com | +1-555-1234", NL>>,
        instructions |->
          <<NL, "You are an expert technical writer. Generate a concise, engaging company profile section for a proposal.", NL, NL,
            "- Use the English language.", NL,
            "- Include company name, core competencies, certifications, and notable achievements.", NL,
            "- Highlight relevance to the current project.", NL,
            "- Keep it under 200 words.", NL,
            "- Format with headings and bullet points for clarity.", NL>>],
     portuguese |->
       [example |->
          <<NL, "Exemplo de Perfil da Empresa:", NL, NL,
            "**Alpha Consulting**", NL,
            "A Alpha Consulting e uma empresa lider em engenharia com mais de 20 anos de experiencia em desenvolvimento de infraestrutura.", NL,
            "Principais Pontos Fortes:", NL,
            "- Especializacao em solucoes de cidades inteligentes", NL,
            "- Certificacoes ISO 9001 e ISO 14001", NL,
            "- Historico comprovado com mais de 50 projetos concluidos em 10 paises", NL, NL,
            "Contato: contato@alphaconsulting.com | +55-11-5555-1234", NL>>,
        instructions |->
          <<NL, "Voce e um redator tecnico especializado. Gere uma secao de perfil da empresa concisa e envolvente para uma proposta.", NL, NL,
            "- Use a lingua portuguesa.", NL,
            "- Inclua nome da empresa, competencias principais, certificacoes e conquistas notaveis.", NL,
            "- Destaque a relevancia para o projeto atual.", NL,
            "- Mantenha abaixo de 200 palavras.", NL,
            "- Formate com titulos e marcadores para clareza.", NL>>],
     spanish |->
       [example |->
          <<NL, "Ejemplo de Perfil de la Empresa:", NL, NL,
            "**Alpha Consulting**", NL,
            "Alpha Consulting es una firma de ingenieria lider con mas de 20 anos de experiencia en desarrollo de infraestructura.", NL,
            "Puntos Fuertes:", NL,
            "- Experiencia en soluciones de ciudades inteligentes", NL,
            "- Certificaciones ISO 9001 e ISO 14001", NL,
            "- Historial comprobado con mas de 50 proyectos completados en 10 paises", NL, NL,
            "Contacto: contacto@alphaconsulting.com | +34-555-123-456", NL>>,
        instructions |->
          <<NL, "Eres un redactor tecnico experto. Genera una seccion de perfil de empresa concisa y atractiva para una propuesta.", NL, NL,
            "- Usa el idioma espanol.", NL,
            "- Incluye nombre de la empresa, competencias clave, certificaciones y logros destacados.", NL,
            "- Resalta la relevancia para el proyecto actual.", NL,
            "- Manten menos de 200 palabras.", NL,
            "- Formatea con encabezados y vinetas para claridad.", NL>>]]

\* Mutant: the english templates whatever the language.
get_language_profile_templates_English(language) ==
    ProfileTemplateText["english"]

\* templates.get(language.lower(), templates["english"])
get_language_profile_templates(language) ==
    IF Lower(language) \in DOMAIN ProfileTemplateText
    THEN ProfileTemplateText[Lower(language)]
    ELSE ProfileTemplateText["english"]

\* "\n".join(f"- {c}" for c in items)
BulletLines(items) == Join(<<NL>>, [i \in 1..Len(items) |-> <<"- ", items[i]>>])

\* Mutant: an empty text stays empty.
OrNoneProvided_Empty(text) == text

\* text or the None-provided bullet: the placeholder when the text is empty.
OrNoneProvided(text) == IF text = <<>> THEN <<"- None provided">> ELSE text

\* company_profiles.build_prompt
ProfilePrompt(firm, project_relevance, language) ==
    LET lang == IF Lower(language) \in Range(SUPPORTED_LANGUAGES)
                THEN Lower(language) ELSE "english"
        tpl == get_language_profile_templates(lang)
        example == tpl["example"]
        instructions == tpl["instructions"]
        certs == BulletLines(firm.certifications)
        achievements == BulletLines(firm.achievements)
    IN Strip(<<NL>> \o instructions
             \o <<NL, NL, "Generate a company profile using the data below.", NL, NL,
                  "Company Name: ", firm.name, NL,
                  "Description: ", firm.description, NL,
                  "Certifications:", NL>>
             \o OrNoneProvided(certs)
             \o <<NL, "Key Achievements:", NL>>
             \o OrNoneProvided(achievements)
             \o <<NL, "Relevance to Project: ", project_relevance, NL, NL>>
             \o example
             \o <<NL, NL, "Now produce the tailored company profile.", NL>>)

Certifications == <<"ISO 9001", "ISO 14001", "ISO 27001">>
Achievements == <<"Completed 50+ international projects", "Awarded Best Green Design 2023",
                  "Ranked top 10 regional firm">>
ItemLists(all) == {[i \in 1..n |-> all[i]] : n \in 0..MaxItems}

Firms ==
    [name : {"Alpha Consulting"},
     description : {"A multidisciplinary engineering firm."},
     certifications : ItemLists(Certifications),
     achievements : ItemLists(Achievements)]

ProfileCalls ==
    [op : {"profile"},
     firm : Firms,
     project_relevance : {"Supports the Smart City project."},
     language : Locales]

(***************************************************************************)
(* project_lists.py                                                        *)
(***************************************************************************)
\* str(i + 1) for the positions the model uses.
IndexText == <<"1", "2", "3", "4">>

\* "{i+1}. Title: {title}\n   Description: {description}" for entry i.
ProjectLines(i, p) ==
    <<IndexText[i], ". Title: ", p.title, NL, "   Description: ", p.description>>

\* project_lists.build_prompt
ProjectPrompt(current_project, past_projects) ==
    LET project_list_text ==
            Join(<<NL>>, [i \in 1..Len(past_projects) |-> ProjectLines(i, past_projects[i])])
    IN Strip(<<NL, "You are a proposal analyst. Given the current project and a list of past projects, do the following:", NL, NL,
               "1. For each past project, rate its relevancy to the CURRENT PROJECT on a scale of 0-100.", NL,
               "2. Provide a one-sentence rationale for each rating.", NL,
               "3. Suggest three additional project ideas or case studies (title + one-line description) that would strengthen our proposal.", NL, NL,
               "Use this format in JSON (no extra text):", NL,
               "{", NL,
               "  \"evaluations\": [", NL,
               "    {", NL,
               "      \"title\": \"Project Title\",", NL,
               "      \"score\": 0-100,", NL,
               "      \"rationale\": \"One sentence justification\"", NL,
               "    },", NL,
               "    ...", NL,
               "  ],", NL,
               "  \"additional_recommendations\": [", NL,
               "    {", NL,
               "      \"title\": \"Recommended Project Title\",", NL,
               "      \"description\": \"One-line description\"", NL,
               "    },", NL,
               "    ...", NL,
               "  ]", NL,
               "}", NL, NL,
               "CURRENT PROJECT:", NL,
               "\"\"\"", current_project, "\"\"\"", NL, NL,
               "PAST PROJECTS:", NL>>
             \o project_list_text
             \o <<NL>>)

ProjectTitles == <<"Urban Smart Grid Deployment", "IoT Environmental Monitoring",
                   "Rural Solar Expansion", "Coastal Flood Barriers">>
PastProject(i) == [title |-> ProjectTitles[i], description |-> "Past work."]
PastProjectLists == {[i \in 1..n |-> PastProject(i)] : n \in 0..MaxProjects}

ProjectCalls ==
    [op : {"project"},
     current_project : {"AI-based water conservation."},
     past_projects : PastProjectLists]

(***************************************************************************)
(* json.loads, as project_lists.generate_project_list uses it.  A JSON     *)
(* text is a sequence of lexical tokens: punctuation, number literals,     *)
(* string literals (written with their quotes), the constants, and         *)
(* whitespace.  Anything else (prose, a code fence) is no JSON token.      *)
(***************************************************************************)
NumberToks == {"50", "101", "-1"}
NumVal(tok) ==
    CASE tok = "50" -> 50
      [] tok = "101" -> 101
      [] tok = "-1" -> -1

\* Literals the Python decoder accepts beyond the JSON grammar.
NonJsonConstants == {"NaN", "Infinity", "-Infinity"}
JsonConstants == {"true", "false", "null"}

StringToks == {"\"evaluations\"", "\"additional_recommendations\"", "\"title\"",
               "\"score\"", "\"rationale\"", "\"description\"", "\"T\"", "\"R\"", "\"D\""}

\* The key a string literal denotes.
KeyOf(tok) ==
    CASE tok = "\"evaluations\"" -> "evaluations"
      [] tok = "\"additional_recommendations\"" -> "additional_recommendations"
      [] tok = "\"title\"" -> "title"
      [] tok = "\"score\"" -> "score"
      [] tok = "\"rationale\"" -> "rationale"
      [] tok = "\"description\"" -> "description"
      [] tok = "\"T\"" -> "T"
      [] tok = "\"R\"" -> "R"
      [] tok = "\"D\"" -> "D"

\* Whitespace the decoder skips between tokens.
JsonWhitespace == {" ", NL}

RECURSIVE SkipWs(_)
SkipWs(toks) ==
    IF toks = <<>> THEN <<>>
    ELSE IF Head(toks) \in JsonWhitespace THEN SkipWs(Tail(toks)) ELSE toks

ParseFail(reason) == [ok |-> FALSE, reason |-> reason]
ParseOk(val, rest) == [ok |-> TRUE, val |-> val, rest |-> rest]

\* dict[key] = val
PutKey(obj, key, val) ==
    [k \in (DOMAIN obj) \cup {key} |-> IF k = key THEN val ELSE obj[k]]

RECURSIVE ParseValue(_, _), ParseElements(_, _, _), ParseMembers(_, _, _)

\* One JSON value at the head of toks; lenient accepts NaN and the
\* infinities as the Python decoder does.
ParseValue(toks, lenient) ==
    LET t == SkipWs(toks) IN
    IF t = <<>> THEN ParseFail("Expecting value")
    ELSE IF Head(t) \in NumberToks
         THEN ParseOk([t |-> "number", v |-> NumVal(Head(t))], Tail(t))
    ELSE IF Head(t) \in NonJsonConstants /\ lenient
         THEN ParseOk([t |-> "float", v |-> Head(t)], Tail(t))
    ELSE IF Head(t) \in JsonConstants
         THEN ParseOk([t |-> "constant", v |-> Head(t)], Tail(t))
    ELSE IF Head(t) \in StringToks
         THEN ParseOk([t |-> "string", v |-> KeyOf(Head(t))], Tail(t))
    ELSE IF Head(t) = "["
         THEN LET u == SkipWs(Tail(t)) IN
              IF u # <<>> /\ Head(u) = "]"
              THEN ParseOk([t |-> "array", v |-> <<>>], Tail(u))
              ELSE ParseElements(u, <<>>, lenient)
    ELSE IF Head(t) = "{"
         THEN LET u == SkipWs(Tail(t)) IN
              IF u # <<>> /\ Head(u) = "}"
              THEN ParseOk([t |-> "object", v |-> <<>>], Tail(u))
              ELSE ParseMembers(u, <<>>, lenient)
    ELSE ParseFail("Expecting value")

\* The elements of an array after "[", up to and including "]".
ParseElements(toks, acc, lenient) ==
    LET e == ParseValue(toks, lenient) IN
    IF ~e.ok THEN e
    ELSE LET u == SkipWs(e.rest) IN
         IF u = <<>> THEN ParseFail("Expecting ',' delimiter")
         ELSE IF Head(u) = "]"
              THEN ParseOk([t |-> "array", v |-> Append(acc, e.val)], Tail(u))
         ELSE IF Head(u) = ","
              THEN ParseElements(Tail(u), Append(acc, e.val), lenient)
         ELSE ParseFail("Expecting ',' delimiter")

\* The members of an object after "{", up to and including "}".
ParseMembers(toks, acc, lenient) ==
    LET t == SkipWs(toks) IN
    IF t = <<>> \/ Head(t) \notin StringToks
    THEN ParseFail("Expecting property name enclosed in double quotes")
    ELSE LET c == SkipWs(Tail(t)) IN
         IF c = <<>> \/ Head(c) # ":" THEN ParseFail("Expecting ':' delimiter")
         ELSE LET e == ParseValue(Tail(c), lenient) IN
              IF ~e.ok THEN e
              ELSE LET u == SkipWs(e.rest)
                       obj == PutKey(acc, KeyOf(Head(t)), e.val)
                   IN IF u = <<>> THEN ParseFail("Expecting ',' delimiter")
                      ELSE IF Head(u) = "}"
                           THEN ParseOk([t |-> "object", v |-> obj], Tail(u))
                      ELSE IF Head(u) = ","
                           THEN ParseMembers(Tail(u), obj, lenient)
                      ELSE ParseFail("Expecting ',' delimiter")

\* A whole document: one value, then nothing but whitespace.
ParseDocument(text, lenient) ==
    LET r == ParseValue(text, lenient) IN
    IF ~r.ok THEN r
    ELSE IF SkipWs(r.rest) # <<>> THEN ParseFail("Extra data")
    ELSE r

\* json.loads(content)
JsonLoads(content) == ParseDocument(content, TRUE)

\* The text is a JSON document by the JSON grammar (RFC 8259).
IsValidJson(text) == ParseDocument(text, FALSE).ok


\* What a call hands back: nothing yet, a returned value, or an exception.
NoResult == [kind |-> "none"]
Returned(value) == [kind |-> "returned", value |-> value]
Raised(exc, msg) == [kind |-> "raised", exc |-> exc, msg |-> msg]

(***************************************************************************)
(* contacts.py                                                             *)
(***************************************************************************)
\* The strings contacts are compared by, in the order str comparison puts
\* them (by code point: the empty string first, capitals before small
\* letters).
StringOrder ==
    <<"", "Acme", "Ann", "Bob", "Engineer", "Manager",
      "ann@example.com", "bob@example.com", "cy@example.com", "dee@example.com">>

\* a < b for two of these strings.
StrLess(a, b) ==
    LET rank(x) == CHOOSE i \in 1..Len(StringOrder) : StringOrder[i] = x
    IN rank(a) < rank(b)

\* contact.get(field, "")
GetOrEmpty(contact, field) ==
    IF field \in DOMAIN contact THEN contact[field] ELSE ""

\* The keys format_contact indexes, in the order it reads them.
FormatKeys == <<"name", "role", "email", "phone">>

\* The KeyError format_contact raises on a contact: the first key it lacks,
\* the empty string when it lacks none.
FormatError(contact) ==
    IF \A i \in 1..Len(FormatKeys) : FormatKeys[i] \in DOMAIN contact THEN ""
    ELSE FormatKeys[CHOOSE i \in 1..Len(FormatKeys) :
                      /\ FormatKeys[i] \notin DOMAIN contact
                      /\ \A j \in 1..(i - 1) : FormatKeys[j] \in DOMAIN contact]

\* contacts.format_contact on a contact that has the four keys.
format_contact(contact) ==
    <<"Name: ", contact.name, NL, "Role: ", contact.role, NL,
      "Email: ", contact.email, NL, "Phone: ", contact.phone>>

\* One step of the sort: x goes behind every element whose key is not
\* greater than its own, so equal keys keep their order of arrival.
RECURSIVE InsertByKey(_, _, _)
InsertByKey(x, sorted, order_by) ==
    IF sorted = <<>> THEN <<x>>
    ELSE IF StrLess(GetOrEmpty(x, order_by), GetOrEmpty(Head(sorted), order_by))
         THEN <<x>> \o sorted
    ELSE <<Head(sorted)>> \o InsertByKey(x, Tail(sorted), order_by)

\* sorted(contacts, key=lambda x: x.get(order_by, ""))
RECURSIVE SortedContacts(_, _)
SortedContacts(contacts, order_by) ==
    IF contacts = <<>> THEN <<>>
    ELSE InsertByKey(contacts[Len(contacts)],
                     SortedContacts(SubSeq(contacts, 1, Len(contacts) - 1), order_by),
                     order_by)

\* contacts.generate_contact_list: the list of formatted contacts, or the
\* KeyError of the first sorted contact that format_contact cannot read.
generate_contact_list(contacts, order_by) ==
    LET sorted_contacts == SortedContacts(contacts, order_by)
        bad == {i \in 1..Len(sorted_contacts) : FormatError(sorted_contacts[i]) # ""}
    IN IF bad = {}
       THEN [state |-> "Done",
             result |-> Returned([i \in 1..Len(sorted_contacts) |->
                                     format_contact(sorted_contacts[i])])]
       ELSE LET first == CHOOSE i \in bad : \A j \in bad : i <= j IN
            [state |-> "Failed",
             result |-> Raised("KeyError", <<FormatError(sorted_contacts[first])>>)]

\* The contacts a caller supplies: two share a name, two a role, one
\* carries a further field, one lacks its name.
ContactPool ==
    {[name |-> "Bob", role |-> "Engineer", email |-> "bob@example.com",
      phone |-> "555-0101", company |-> "Acme"],
     [name |-> "Ann", role |-> "Manager", email |-> "ann@example.com",
      phone |-> "555-0102"],
     [name |-> "Ann", role |-> "Engineer", email |-> "cy@example.com",
      phone |-> "555-0103"],
     [role |-> "Manager", email |-> "dee@example.com", phone |-> "555-0104"]}

ContactLists == UNION {[1..n -> ContactPool] : n \in 0..MaxContacts}

ContactCalls ==
    [op : {"contacts"},
     contacts : ContactLists,
     order_by : {"name", "role", "email", "company"}]

(***************************************************************************)
(* What the providers answer.                                              *)
(***************************************************************************)
\* Free text, as answered to a legal-document or profile prompt: nothing,
\* whitespace only, a document, a document within blank lines.
TextResponses ==
    {<<>>, <<" ", NL>>, <<"Generated document text.">>,
     <<NL, "Generated document text.", NL>>}

ScoreToks == {"50", "101", "-1", "NaN"}

EvaluationItem(score) ==
    <<"{", "\"title\"", ":", "\"T\"", ",", "\"score\"", ":", score, ",",
      "\"rationale\"", ":", "\"R\"", "}">>

RecommendationItem ==
    <<"{", "\"title\"", ":", "\"T\"", ",", "\"description\"", ":", "\"D\"", "}">>

JsonArray(items) == <<"[">> \o Join(<<",", " ">>, items) \o <<"]">>

\* The JSON text of an answer with these scores and this many
\* recommendations.
EvaluationDocument(scores, nrecs) ==
    <<"{", "\"evaluations\"", ":">>
    \o JsonArray([i \in 1..Len(scores) |-> EvaluationItem(scores[i])])
    \o <<",", NL, "\"additional_recommendations\"", ":">>
    \o JsonArray([i \in 1..nrecs |-> RecommendationItem])
    \o <<"}">>

ScoreLists == UNION {[1..n -> ScoreToks] : n \in 0..MaxProjects}

EvaluationDocuments ==
    {EvaluationDocument(scores, nrecs) : scores \in ScoreLists, nrecs \in 2..MaxRecs}

\* The markers of a Markdown code fence (three backquotes, the first with
\* the language name).
CodeFenceOpen == "<fence>json"
CodeFenceClose == "<fence>"

\* An answer to the project-evaluation prompt: the JSON text alone, within
\* whitespace, in a code fence, after a sentence of prose, cut short by the
\* token limit; or no text, or JSON of another shape.
EvaluationResponses ==
    EvaluationDocuments
    \cup {<<" ", NL>> \o d \o <<NL>> : d \in EvaluationDocuments}
    \cup {<<CodeFenceOpen, NL>> \o d \o <<NL, CodeFenceClose>> : d \in EvaluationDocuments}
    \cup {<<"Here is the analysis:", NL>> \o d : d \in EvaluationDocuments}
    \cup {SubSeq(d, 1, Len(d) - 1) : d \in EvaluationDocuments}
    \cup {<<>>, <<" ">>, <<"[", "]">>, <<"{", "}">>, <<"50">>}

\* What makes a provider call raise.
ProviderErrors == {"network", "auth"}

(***************************************************************************)
(* The facades.                                                            *)
(***************************************************************************)
States == {"Idle", "Building", "Invoking", "Validating", "Done", "Failed"}

Calls == LegalCalls \cup ProfileCalls \cup ProjectCalls \cup ContactCalls

\* The facades that call a provider.
ProviderOps == {"legal", "profile", "project"}

\* Legal documents go to Gemini, profiles and evaluations to OpenAI.
ProviderOf(op) == IF op = "legal" THEN "gemini" ELSE "openai"

KeyPresent(op) == IF ProviderOf(op) = "gemini" THEN gemini_key ELSE openai_key

Responses(op) == IF op = "project" THEN EvaluationResponses ELSE TextResponses

\* The exception build_prompt of the facade raises, the empty string for none.
BuildError(c) ==
    IF c.op = "legal" THEN LegalBuildError(c.doc_type, c.parties) ELSE ""

BuildPrompt(c) ==
    CASE c.op = "legal" -> LegalPrompt(c.doc_type, c.parties, c.project_name, c.language)
      [] c.op = "profile" -> ProfilePrompt(c.firm, c.project_relevance, c.language)
      [] c.op = "project" -> ProjectPrompt(c.current_project, c.past_projects)

\* Mutant: the project facade returns an error text as the others do.
ProviderFailureResult_AllReturn(op, cause) ==
    CASE op = "legal" -> Returned(<<"Error generating legal document: ", cause>>)
      [] op = "profile" -> Returned(<<"Error generating company profile: ", cause>>)
      [] op = "project" -> Returned(<<"Error generating project list: ", cause>>)

\* Mutant: the profile facade raises as the project facade does.
ProviderFailureResult_ProfileRaises(op, cause) ==
    CASE op = "legal" -> Returned(<<"Error generating legal document: ", cause>>)
      [] op = "profile" -> Raised("RuntimeError", <<"OpenAI API error: ", cause>>)
      [] op = "project" -> Raised("RuntimeError", <<"OpenAI API error: ", cause>>)

\* The except clauses around the provider call: the legal and profile
\* facades return a text, the project facade raises.
ProviderFailureResult(op, cause) ==
    CASE op = "legal" -> Returned(<<"Error generating legal document: ", cause>>)
      [] op = "profile" -> Returned(<<"Error generating company profile: ", cause>>)
      [] op = "project" -> Raised("RuntimeError", <<"OpenAI API error: ", cause>>)

\* What the facade does with the text of the provider: the state it moves to
\* and its result so far.
AfterResponse(op, text) ==
    IF op = "project"
    THEN [state |-> "Validating", result |-> NoResult]
    ELSE [state |-> "Done", result |-> Returned(Strip(text))]

\* content = ....strip(); data = json.loads(content); return data, or the
\* ValueError of the JSONDecodeError clause.
ParseResult(text) ==
    LET content == Strip(text)
        p == JsonLoads(content)
    IN IF p.ok
       THEN [state |-> "Done", result |-> Returned(p.val)]
       ELSE [state |-> "Failed",
             result |-> Raised("ValueError",
                               <<"Failed to parse JSON from model response: ", p.reason,
                                 NL, "Raw response:", NL>> \o content)]

Init ==
    /\ proc = "starting"
    /\ gemini_key \in BOOLEAN
    /\ openai_key \in BOOLEAN
    /\ call \in [Reqs -> Calls]
    /\ state = [r \in Reqs |-> "Idle"]
    /\ prompt = [r \in Reqs |-> <<>>]
    /\ response = [r \in Reqs |-> <<>>]
    /\ result = [r \in Reqs |-> NoResult]
    /\ calls = [r \in Reqs |-> 0]

\* Importing the modules: legal_docs raises when GEMINI_API_KEY is unset,
\* the OpenAI modules store whatever OPENAI_API_KEY holds.
Startup ==
    /\ proc = "starting"
    /\ proc' = IF gemini_key THEN "running" ELSE "crashed"
    /\ UNCHANGED <<gemini_key, openai_key, call, state, prompt, response, result, calls>>

\* A facade is called.
Start(r) ==
    /\ proc = "running"
    /\ state[r] = "Idle"
    /\ state' = [state EXCEPT ![r] = "Building"]
    /\ UNCHANGED <<proc, gemini_key, openai_key, call, prompt, response, result, calls>>

\* Mutant: the prompt is kept in one place that every request reads.
Build_SharedPrompt(r) ==
    /\ state[r] = "Building"
    /\ call[r].op \in ProviderOps
    /\ LET err == BuildError(call[r]) IN
       IF err # ""
       THEN /\ state' = [state EXCEPT ![r] = "Failed"]
            /\ result' = [result EXCEPT ![r] = Raised(err, <<>>)]
            /\ UNCHANGED prompt
       ELSE /\ state' = [state EXCEPT ![r] = "Invoking"]
            /\ prompt' = [q \in DOMAIN prompt |-> BuildPrompt(call[r])]
            /\ UNCHANGED result
    /\ UNCHANGED <<proc, gemini_key, openai_key, call, response, calls>>

\* prompt = build_prompt(...)
Build(r) ==
    /\ state[r] = "Building"
    /\ call[r].op \in ProviderOps
    /\ LET err == BuildError(call[r]) IN
       IF err # ""
       THEN /\ state' = [state EXCEPT ![r] = "Failed"]
            /\ result' = [result EXCEPT ![r] = Raised(err, <<>>)]
            /\ UNCHANGED prompt
       ELSE /\ state' = [state EXCEPT ![r] = "Invoking"]
            /\ prompt' = [prompt EXCEPT ![r] = BuildPrompt(call[r])]
            /\ UNCHANGED result
    /\ UNCHANGED <<proc, gemini_key, openai_key, call, response, calls>>

\* The provider call returns a text.
ProviderReturns(r) ==
    /\ state[r] = "Invoking"
    /\ KeyPresent(call[r].op)
    /\ \E text \in Responses(call[r].op) :
         LET a == AfterResponse(call[r].op, text) IN
         /\ response' = [response EXCEPT ![r] = <<text>>]
         /\ state' = [state EXCEPT ![r] = a.state]
         /\ result' = [result EXCEPT ![r] = a.result]
    /\ calls' = [calls EXCEPT ![r] = @ + 1]
    /\ UNCHANGED <<proc, gemini_key, openai_key, call, prompt>>

\* Mutant: a failed provider call is retried.
ProviderFails_Retry(r) ==
    /\ state[r] \in {"Invoking", "Failed"}
    /\ prompt[r] # <<>>
    /\ calls[r] < 2
    /\ \E cause \in ProviderErrors :
         /\ ~KeyPresent(call[r].op) => cause = "auth"
         /\ result' = [result EXCEPT ![r] = ProviderFailureResult(call[r].op, cause)]
    /\ state' = [state EXCEPT ![r] = "Failed"]
    /\ calls' = [calls EXCEPT ![r] = @ + 1]
    /\ UNCHANGED <<proc, gemini_key, openai_key, call, prompt, response>>

\* Mutant: after a first failure the facade asks the provider once more.
ProviderFails_SecondAttempt(r) ==
    /\ state[r] = "Invoking"
    /\ \E cause \in ProviderErrors :
         /\ ~KeyPresent(call[r].op) => cause = "auth"
         /\ IF calls[r] = 0
            THEN UNCHANGED <<state, result>>
            ELSE /\ result' = [result EXCEPT ![r] = ProviderFailureResult(call[r].op, cause)]
                 /\ state' = [state EXCEPT ![r] = "Failed"]
    /\ calls' = [calls EXCEPT ![r] = @ + 1]
    /\ UNCHANGED <<proc, gemini_key, openai_key, call, prompt, response>>

\* The provider call raises; without a key it can only be refused.
ProviderFails(r) ==
    /\ state[r] = "Invoking"
    /\ \E cause \in ProviderErrors :
         /\ ~KeyPresent(call[r].op) => cause = "auth"
         /\ result' = [result EXCEPT ![r] = ProviderFailureResult(call[r].op, cause)]
    /\ state' = [state EXCEPT ![r] = "Failed"]
    /\ calls' = [calls EXCEPT ![r] = @ + 1]
    /\ UNCHANGED <<proc, gemini_key, openai_key, call, prompt, response>>

\* The project facade parses the text it got.
Validate(r) ==
    /\ state[r] = "Validating"
    /\ LET v == ParseResult(response[r][1]) IN
       /\ state' = [state EXCEPT ![r] = v.state]
       /\ result' = [result EXCEPT ![r] = v.result]
    /\ UNCHANGED <<proc, gemini_key, openai_key, call, prompt, response, calls>>

\* Mutant: the contact list is formatted by a provider.
GenerateContacts_ViaProvider(r) ==
    /\ state[r] = "Building"
    /\ call[r].op = "contacts"
    /\ LET g == generate_contact_list(call[r].contacts, call[r].order_by) IN
       IF KeyPresent("profile")
       THEN /\ state' = [state EXCEPT ![r] = g.state]
            /\ result' = [result EXCEPT ![r] = g.result]
       ELSE /\ state' = [state EXCEPT ![r] = "Failed"]
            /\ result' = [result EXCEPT ![r] = Raised("RuntimeError", <<"auth">>)]
    /\ calls' = [calls EXCEPT ![r] = @ + 1]
    /\ UNCHANGED <<proc, gemini_key, openai_key, call, prompt, response>>

\* The contact facade sorts and formats, all within the call.
GenerateContacts(r) ==
    /\ state[r] = "Building"
    /\ call[r].op = "contacts"
    /\ LET g == generate_contact_list(call[r].contacts, call[r].order_by) IN
       /\ state' = [state EXCEPT ![r] = g.state]
       /\ result' = [result EXCEPT ![r] = g.result]
    /\ UNCHANGED <<proc, gemini_key, openai_key, call, prompt, response, calls>>

Next ==
    \/ Startup
    \/ \E r \in DOMAIN state : Start(r)
    \/ \E r \in DOMAIN state : Build(r)
    \/ \E r \in DOMAIN state : ProviderReturns(r)
    \/ \E r \in DOMAIN state : ProviderFails(r)
    \/ \E r \in DOMAIN state : Validate(r)
    \/ \E r \in DOMAIN state : GenerateContacts(r)

Spec == Init /\ [][Next]_vars

\* Two sessions of the app call facades at the same time.
ConcReqs == {"r1", "r2"}

\* What the two sessions ask for: either may ask for a power of attorney,
\* the first also for an evaluation, the second also for a profile or a
\* contact list.
ConcLegalCalls ==
    {c \in LegalCalls : /\ c.doc_type = "power_of_attorney"
                        /\ Len(c.parties) = 2
                        /\ c.language \in {"english", "portuguese"}}

ConcCallsOf(r) ==
    IF r = "r1"
    THEN ConcLegalCalls \cup {c \in ProjectCalls : Len(c.past_projects) = 1}
    ELSE ConcLegalCalls
         \cup {c \in ProfileCalls : /\ c.language = "spanish"
                                    /\ c.firm.certifications = <<>>
                                    /\ Len(c.firm.achievements) = 1}
         \cup {c \in ContactCalls : Len(c.contacts) = 1 /\ c.order_by = "name"}

InitConc ==
    /\ proc = "starting"
    /\ gemini_key \in BOOLEAN
    /\ openai_key \in BOOLEAN
    /\ call \in {f \in [ConcReqs -> Calls] : \A r \in ConcReqs : f[r] \in ConcCallsOf(r)}
    /\ state = [r \in ConcReqs |-> "Idle"]
    /\ prompt = [r \in ConcReqs |-> <<>>]
    /\ response = [r \in ConcReqs |-> <<>>]
    /\ result = [r \in ConcReqs |-> NoResult]
    /\ calls = [r \in ConcReqs |-> 0]

SpecConc == InitConc /\ [][Next]_vars

(***************************************************************************)
(* Properties.                                                             *)
(***************************************************************************)
TextOps == {"legal", "profile"}

\* The steps of the request state machine.
Transitions ==
    {<<"Idle", "Building">>, <<"Building", "Invoking">>, <<"Building", "Failed">>,
     <<"Invoking", "Validating">>, <<"Invoking", "Done">>, <<"Invoking", "Failed">>,
     <<"Validating", "Done">>, <<"Validating", "Failed">>}

HasArray(data, key) ==
    /\ data.t = "object"
    /\ key \in DOMAIN data.v
    /\ data.v[key].t = "array"

\* A project evaluation returned data to its caller.
ProjectDone(r) ==
    /\ call[r].op = "project"
    /\ state[r] = "Done"
    /\ result[r].kind = "returned"

\* C2: a project evaluation called with N past projects returns no result
\* whose evaluations list has another length than N.
C2_EvaluationCount ==
    \A r \in Reqs :
        (ProjectDone(r) /\ HasArray(result[r].value, "evaluations")) =>
            Len(result[r].value.v["evaluations"].v) = Len(call[r].past_projects)

\* C3: every score of every evaluation a project evaluation returns is a
\* number within 0..100.
C3_ScoresInRange ==
    \A r \in Reqs :
        (ProjectDone(r) /\ HasArray(result[r].value, "evaluations")) =>
            \A i \in 1..Len(result[r].value.v["evaluations"].v) :
                LET e == result[r].value.v["evaluations"].v[i] IN
                (e.t = "object" /\ "score" \in DOMAIN e.v) =>
                    /\ e.v["score"].t = "number"
                    /\ e.v["score"].v \in 0..100

\* C4: a project evaluation returns no result whose list of additional
\* recommendations has another length than three.
C4_ThreeRecommendations ==
    \A r \in Reqs :
        (ProjectDone(r) /\ HasArray(result[r].value, "additional_recommendations")) =>
            Len(result[r].value.v["additional_recommendations"].v) = 3

\* C5: a project evaluation whose provider text is no JSON document fails
\* with a ValueError that carries the reason and the raw text, and returns
\* nothing.
C5_InvalidJsonFails ==
    \A r \in Reqs :
        (/\ call[r].op = "project"
         /\ state[r] \in {"Done", "Failed"}
         /\ response[r] # <<>>
         /\ ~IsValidJson(response[r][1])) =>
            /\ state[r] = "Failed"
            /\ result[r].kind = "raised"
            /\ result[r].exc = "ValueError"
            /\ IsSubstring(Strip(response[r][1]), result[r].msg)
            /\ Len(result[r].msg) > Len(Strip(response[r][1]))

\* C6: a project evaluation that fails, at the provider or at parsing,
\* raises: it never returns a value, and what it returns it returns only
\* after the provider answered and the answer parsed.
C6_ProjectHardFailure ==
    \A r \in Reqs :
        call[r].op = "project" =>
            /\ state[r] = "Failed" =>
                 /\ result[r].kind = "raised"
                 /\ result[r].exc \in {"RuntimeError", "ValueError"}
                 /\ result[r].exc = "RuntimeError" <=> response[r] = <<>>
            /\ result[r].kind = "returned" =>
                 /\ state[r] = "Done"
                 /\ response[r] # <<>>

\* A project evaluation whose provider call failed.
C6_Witness ==
    \E r \in Reqs :
        /\ call[r].op = "project"
        /\ state[r] = "Failed"
        /\ calls[r] = 1
        /\ response[r] = <<>>
        /\ result[r].kind = "raised"

\* C7: a legal-document or profile request whose provider call fails returns
\* a text describing the error and raises nothing.
C7_TextFailureReturned ==
    \A r \in Reqs :
        (call[r].op \in TextOps /\ state[r] = "Failed" /\ calls[r] > 0) =>
            /\ result[r].kind = "returned"
            /\ Len(result[r].value) = 2
            /\ result[r].value[1] =
                 (IF call[r].op = "legal" THEN "Error generating legal document: "
                  ELSE "Error generating company profile: ")
            /\ result[r].value[2] \in ProviderErrors

\* A profile request whose provider call failed.
C7_Witness ==
    \E r \in Reqs :
        /\ call[r].op = "profile"
        /\ state[r] = "Failed"
        /\ calls[r] = 1
        /\ result[r].kind = "returned"

\* The input the legal facade must refuse.
BadLegalInput(c) ==
    \/ c.doc_type \notin LegalDocTypes
    \/ c.doc_type = "power_of_attorney" /\ Len(c.parties) < 2

\* C8: a legal-document request with fewer than two parties for a power of
\* attorney, or with an unknown document type, ends Failed with an exception
\* raised to the caller, no prompt and no provider invocation; and a legal
\* request that raised has invoked no provider.
C8_BadInputRejectedFirst ==
    \A r \in Reqs :
        call[r].op = "legal" =>
            /\ (BadLegalInput(call[r]) /\ state[r] \notin {"Idle", "Building"}) =>
                 /\ state[r] = "Failed"
                 /\ result[r].kind = "raised"
                 /\ result[r].exc \in {"IndexError", "ValueError"}
                 /\ calls[r] = 0
                 /\ prompt[r] = <<>>
                 /\ response[r] = <<>>
            /\ (state[r] = "Failed" /\ result[r].kind = "raised") =>
                 /\ calls[r] = 0
                 /\ prompt[r] = <<>>

\* A power of attorney with one party, refused.
C8_Witness ==
    \E r \in Reqs :
        /\ call[r].op = "legal"
        /\ call[r].doc_type = "power_of_attorney"
        /\ Len(call[r].parties) = 1
        /\ state[r] = "Failed"
        /\ result[r].kind = "raised"
        /\ calls[r] = 0

\* C9: no request is Done after the provider returned an empty text, and no
\* text facade is Done with the empty text as its document.
C9_EmptyResponseFails ==
    \A r \in Reqs :
        state[r] = "Done" =>
            /\ response[r] # << <<>> >>
            /\ call[r].op \in TextOps => result[r].value # <<>>

\* C10: the prompt of a power of attorney with three or more parties holds
\* the name and role of parties[0] and parties[1] and of no later entry, and
\* the request does not fail in Building.
C10_OnlyFirstTwoParties ==
    \A r \in Reqs :
        (/\ call[r].op = "legal"
         /\ call[r].doc_type = "power_of_attorney"
         /\ Len(call[r].parties) >= 3
         /\ state[r] \notin {"Idle", "Building"}) =>
            /\ prompt[r] # <<>>
            /\ result[r].kind # "raised"
            /\ IsSubstring(<<"Principal: ", call[r].parties[1].name, " (",
                             call[r].parties[1].role, ")">>, prompt[r])
            /\ IsSubstring(<<"Attorney-in-fact: ", call[r].parties[2].name, " (",
                             call[r].parties[2].role, ")">>, prompt[r])
            /\ \A k \in 3..Len(call[r].parties) :
                 /\ call[r].parties[k].name \notin Range(prompt[r])
                 /\ call[r].parties[k].role \notin Range(prompt[r])

\* A power of attorney with three parties whose prompt was built and sent.
C10_Witness ==
    \E r \in Reqs :
        /\ call[r].op = "legal"
        /\ call[r].doc_type = "power_of_attorney"
        /\ Len(call[r].parties) = 3
        /\ state[r] = "Done"
        /\ prompt[r] # <<>>

\* C11: a legal-document or profile request with an unsupported or empty
\* locale builds exactly the prompt the same arguments build with english,
\* and fails in Building only if the english request does.
C11_UnknownLocaleIsEnglish ==
    \A r \in Reqs :
        (/\ call[r].op \in TextOps
         /\ Lower(call[r].language) \notin SupportedLocales
         /\ state[r] \notin {"Idle", "Building"}) =>
            LET english == [call[r] EXCEPT !.language = "english"] IN
            IF BuildError(english) # ""
            THEN prompt[r] = <<>> /\ result[r] = Raised(BuildError(english), <<>>)
            ELSE /\ prompt[r] = BuildPrompt(english)
                 /\ result[r].kind # "raised"

\* A legal document and a profile are both asked for in an unknown locale;
\* this is the legal one, built and answered.
C11_Witness ==
    \E r \in Reqs :
        /\ call[r].op = "legal"
        /\ call[r].language \in {"klingon", ""}
        /\ state[r] = "Done"
        /\ prompt[r] # <<>>

\* The instruction text stored for the document kind and locale of a call.
StoredInstructions(c) ==
    IF c.op = "legal"
    THEN LegalTemplateText[Lower(c.language)][c.doc_type]
    ELSE ProfileTemplateText[Lower(c.language)]["instructions"]

\* A legal-document or profile request in a supported locale whose prompt
\* was built.
BuiltInSupportedLocale(r) ==
    /\ call[r].op \in TextOps
    /\ Lower(call[r].language) \in SupportedLocales
    /\ prompt[r] # <<>>

\* C12 as stated: the prompt holds the complete stored instruction text,
\* character for character, also after the final trimming.
C12_InstructionsVerbatim ==
    \A r \in Reqs :
        BuiltInSupportedLocale(r) => IsSubstring(StoredInstructions(call[r]), prompt[r])

\* C12 as amended: the prompt starts with the stored instruction text less
\* its leading line break, which the final strip() removes; every other
\* character of it, the closing line break included, is kept.
C12_InstructionsButLeadingBreak ==
    \A r \in Reqs :
        BuiltInSupportedLocale(r) =>
            LET instructions == StoredInstructions(call[r]) IN
            /\ Head(instructions) = NL
            /\ Len(prompt[r]) > Len(instructions)
            /\ SubSeq(prompt[r], 1, Len(instructions) - 1) = Tail(instructions)

\* A profile prompt built in Portuguese.
C12_Witness ==
    \E r \in Reqs :
        /\ call[r].op = "profile"
        /\ call[r].language = "portuguese"
        /\ state[r] = "Invoking"
        /\ prompt[r] # <<>>

\* The blocks are those of the contacts in a stable order by the field: a
\* rearrangement in which keys never decrease and contacts with equal keys
\* stand as they stood in the input, a missing field counting as the empty
\* string.
IsStableSortOf(blocks, contacts, order_by) ==
    LET n == Len(contacts)
        key(i) == GetOrEmpty(contacts[i], order_by)
    IN /\ Len(blocks) = n
       /\ \E perm \in [1..n -> 1..n] :
            /\ \A i, j \in 1..n : i # j => perm[i] # perm[j]
            /\ \A i, j \in 1..n : i < j => ~StrLess(key(perm[j]), key(perm[i]))
            /\ \A i, j \in 1..n :
                 (i < j /\ key(perm[i]) = key(perm[j])) => perm[i] < perm[j]
            /\ \A i \in 1..n :
                 /\ FormatError(contacts[perm[i]]) = ""
                 /\ blocks[i] = format_contact(contacts[perm[i]])

ContactsFinished(r) ==
    call[r].op = "contacts" /\ state[r] \notin {"Idle", "Building"}

\* C13: a contact list request returns one formatted block per input
\* contact, in a stable order by the requested field, contacts with equal
\* keys in input order and a contact lacking the field compared as the
\* empty string.
C13_StableSortedBlocks ==
    \A r \in Reqs :
        ContactsFinished(r) =>
            /\ result[r].kind = "returned"
            /\ IsStableSortOf(result[r].value, call[r].contacts, call[r].order_by)

\* The same for the lists whose contacts all carry the four printed fields.
SortedWhenComplete ==
    \A r \in Reqs :
        (/\ ContactsFinished(r)
         /\ \A i \in 1..Len(call[r].contacts) : FormatError(call[r].contacts[i]) = "") =>
            /\ result[r].kind = "returned"
            /\ IsStableSortOf(result[r].value, call[r].contacts, call[r].order_by)

\* C14: a contact list request never invokes a provider: it builds no
\* prompt, counts no provider call, receives no response, never stands in
\* Invoking or Validating, and its outcome is what generate_contact_list
\* computes from its own arguments, whatever the credentials are.
C14_ContactsLocal ==
    \A r \in Reqs :
        call[r].op = "contacts" =>
            /\ calls[r] = 0
            /\ prompt[r] = <<>>
            /\ response[r] = <<>>
            /\ state[r] \in {"Idle", "Building", "Done", "Failed"}
            /\ state[r] \in {"Done", "Failed"} =>
                 LET g == generate_contact_list(call[r].contacts, call[r].order_by)
                 IN state[r] = g.state /\ result[r] = g.result

\* A list of two contacts is returned while the OpenAI credential is absent.
C14_Witness ==
    \E r \in Reqs :
        /\ call[r].op = "contacts"
        /\ state[r] = "Done"
        /\ ~openai_key
        /\ result[r].kind = "returned"
        /\ Len(result[r].value) = 2

\* The lines of a list section: one line per item, each a hyphen, a space
\* and the item, in input order.
RECURSIVE ItemLines(_)
ItemLines(items) ==
    IF items = <<>> THEN <<>>
    ELSE <<"- ", Head(items), NL>> \o ItemLines(Tail(items))

\* A heading and what stands under it: the item lines, or the placeholder
\* line for an empty list.
ListSection(heading, items) ==
    <<heading, NL>> \o (IF items = <<>> THEN <<"- None provided", NL>> ELSE ItemLines(items))

ProfileBuilt(r) ==
    call[r].op = "profile" /\ state[r] \notin {"Idle", "Building"}

\* C15: in the prompt of a company profile an empty certifications or
\* achievements list stands as one placeholder line under its heading,
\* never as an empty section, and a list with elements stands as one
\* hyphen line per element in input order.
C15_ListSections ==
    \A r \in Reqs :
        ProfileBuilt(r) =>
            LET firm == call[r].firm IN
            /\ IsSubstring(ListSection("Certifications:", firm.certifications)
                           \o ListSection("Key Achievements:", firm.achievements)
                           \o <<"Relevance to Project: ">>,
                           prompt[r])
            /\ ~IsSubstring(<<"Certifications:", NL, "Key Achievements:">>, prompt[r])
            /\ ~IsSubstring(<<"Certifications:", NL, NL>>, prompt[r])
            /\ ~IsSubstring(<<"Key Achievements:", NL, "Relevance to Project: ">>, prompt[r])
            /\ ~IsSubstring(<<"Key Achievements:", NL, NL>>, prompt[r])

\* A profile prompt is built for a firm with no certifications and two
\* achievements.
C15_Witness ==
    \E r \in Reqs :
        /\ ProfileBuilt(r)
        /\ call[r].firm.certifications = <<>>
        /\ Len(call[r].firm.achievements) = 2
        /\ IsSubstring(<<"Certifications:", NL, "- None provided", NL>>, prompt[r])

\* C16: no retries. A step invokes the provider at most once, a request
\* never counts more than one invocation, the step that invokes leaves
\* Invoking for good (to the parse of the answer or to an outcome), and a
\* request that failed takes no further step.
C16_NoRetries ==
    [][\A r \in Reqs :
         /\ calls'[r] \in {calls[r], calls[r] + 1}
         /\ calls'[r] <= 1
         /\ calls'[r] = calls[r] + 1 =>
              /\ state[r] = "Invoking"
              /\ state'[r] \in {"Validating", "Done", "Failed"}
         /\ (state[r] = "Invoking" /\ state'[r] # "Invoking") => calls'[r] = 1
         /\ state[r] = "Failed" =>
              /\ state'[r] = "Failed"
              /\ calls'[r] = calls[r]
              /\ result'[r] = result[r]]_vars

\* A provider call failed: the request stands in Failed after its one
\* invocation.
C16_Witness ==
    \E r \in Reqs :
        /\ call[r].op \in ProviderOps
        /\ state[r] = "Failed"
        /\ calls[r] = 1
        /\ response[r] = <<>>
        /\ prompt[r] # <<>>

\* C17: a missing provider credential is fatal at startup for every
\* provider: no request stands in Building or Invoking, or has got past
\* them, while the credential of its provider is absent, and no outcome
\* first reports the missing credential.
C17_MissingCredentialFatalAtStartup ==
    \A r \in Reqs :
        (call[r].op \in ProviderOps /\ state[r] # "Idle") => KeyPresent(call[r].op)

\* What a request holds of its own.
OwnFields(r) == <<state[r], prompt[r], response[r], result[r], calls[r]>>

\* The prompt of a request as its own call gives it.
OwnPrompt(r) ==
    IF /\ call[r].op \in ProviderOps
       /\ state[r] \notin {"Idle", "Building"}
       /\ BuildError(call[r]) = ""
    THEN BuildPrompt(call[r])
    ELSE <<>>

\* The outcomes of a request as its own call and its own provider answer
\* give them.
OwnOutcomes(r) ==
    LET c == call[r] IN
    IF state[r] \notin {"Done", "Failed"} THEN {NoResult}
    ELSE IF c.op = "contacts"
         THEN {generate_contact_list(c.contacts, c.order_by).result}
    ELSE IF BuildError(c) # "" THEN {Raised(BuildError(c), <<>>)}
    ELSE IF response[r] = <<>>
         THEN {ProviderFailureResult(c.op, cause) : cause \in ProviderErrors}
    ELSE IF c.op = "project" THEN {ParseResult(response[r][1]).result}
    ELSE {AfterResponse(c.op, response[r][1]).result}

\* C18: requests in flight together are independent. At every moment the
\* prompt and the outcome of each request are those its own call and its
\* own provider answer give; no step of a request changes the credentials
\* or any call, and a step that changes what one request holds leaves
\* every other request as it was.
C18_RequestsIndependent ==
    /\ [](\A r \in DOMAIN state :
            /\ prompt[r] = OwnPrompt(r)
            /\ result[r] \in OwnOutcomes(r))
    /\ [][/\ gemini_key' = gemini_key
          /\ openai_key' = openai_key
          /\ call' = call
          /\ \A r, q \in DOMAIN state :
               (r # q /\ OwnFields(r)' # OwnFields(r)) => OwnFields(q)' = OwnFields(q)]_vars

\* Two requests for the same document in the same language are in flight:
\* one has its document, the other is still with the provider.
C18_Witness ==
    \E r, q \in DOMAIN state :
        /\ r # q
        /\ call[r].op = "legal" /\ call[q].op = "legal"
        /\ call[r].language = call[q].language
        /\ state[r] = "Done" /\ calls[r] = 1
        /\ state[q] = "Invoking" /\ calls[q] = 0
        /\ prompt[r] = prompt[q]
        /\ result[q] = NoResult

====
